---- MODULE Spec2Model ----
(***************************************************************************)
(* Loveless Delay (turboladen/vst-plugins): the ring-buffer delay line,    *)
(* the one-pole feedback filter and the per-sample signal flow of          *)
(* LovelessDelay::process.                                                 *)
(*                                                                         *)
(* Numbers.  Every f32 of the program (samples, delay amounts, gains,      *)
(* cutoff frequencies, filter coefficients) is a fixed-point number here:  *)
(* the integer n stands for n / ONE.  A product is rounded to the nearest  *)
(* representable value, ties to even, as IEEE-754 rounds.  Sample rates    *)
(* are whole numbers of Hz.                                                *)
(***************************************************************************)
EXTENDS Integers, Sequences, FiniteSets

VARIABLES
    \* ---- a DelayLine driven through its public API (delay_line.rs) ----
    dl,            \* the DelayLine: [buffer, write_pos, buffer_len]
    dlPanicked,    \* TRUE once a call on dl has panicked
    dlWritten,     \* write() has been called since the last advance()
    dlHist,        \* the samples committed by the write+advance ticks since new()/clear()
    dlTicked,      \* every call since new()/clear() was part of a write-then-advance tick
    dlFresh,       \* "new" | "cleared": nothing was called since new() | clear(); else "used"
    dlRead,        \* the last read(): [delay, value], or NoRead
    \* ---- the plugin (lib.rs) ----
    sample_rate,   \* LovelessDelay.sample_rate, whole Hz
    delay_lines,   \* LovelessDelay.delay_lines: Seq(DelayLine)
    filters,       \* LovelessDelay.filters: Seq(OnePoleFilter)
    params,        \* the values the four parameter smoothers yield
    smoothers,     \* the four smoothers: where each is heading and in how many steps
    pc,            \* "idle" | "processing" | "panicked"
    tick,          \* sample ticks processed since initialize()/reset()
    buf_channels,  \* channels of the buffer process() is working on
    ins,           \* the input frames of the ticks since initialize()/reset()
    outs,          \* the output frames of those ticks
    last,          \* what the last tick did, per buffer channel
    status,        \* the last call of initialize/reset/process: what it found and returned
    \* ---- a OnePoleFilter driven through its public API (filter.rs) ----
    flt,           \* the OnePoleFilter: [coefficient, prev_output]
    fltCut,        \* set_cutoff() has returned since new()
    fltPanicked,   \* TRUE once a call on flt has panicked
    fltLast,       \* the last call on flt: what it was given, found and returned
    fltRun         \* the run of process() calls with one input under one coefficient

dlVars == <<dl, dlPanicked, dlWritten, dlHist, dlTicked, dlFresh, dlRead>>
plVars == <<sample_rate, delay_lines, filters, params, smoothers, pc, tick, buf_channels,
            ins, outs, last, status>>
flVars == <<flt, fltCut, fltPanicked, fltLast, fltRun>>
vars == <<dlVars, plVars, flVars>>

----------------------------------------------------------------------------
(* Bounds of the model *)

MaxCapacity == 4       \* capacities of the stand-alone DelayLine: 0..MaxCapacity
MaxDLTicks == 6        \* write+advance ticks recorded on the stand-alone DelayLine
MaxOver == 1           \* read() delays run from -1.0 to capacity - 1 + MaxOver, in halves

----------------------------------------------------------------------------
(* Fixed-point arithmetic *)

ONE == 2^10
HALF == ONE \div 2

Min(a, b) == IF a <= b THEN a ELSE b
Max(a, b) == IF a >= b THEN a ELSE b

\* a / b rounded to the nearest integer, ties to even (b > 0)
RoundDiv(a, b) ==
    LET q == a \div b
        r == a - q * b
    IN  IF 2 * r < b THEN q
        ELSE IF 2 * r > b THEN q + 1
        ELSE IF q % 2 = 0 THEN q ELSE q + 1

\* the f32 product x * y
Mul(x, y) == RoundDiv(x * y, ONE)

\* f32::clamp(x, lo, hi), for lo <= hi
Clamp(x, lo, hi) == IF x < lo THEN lo ELSE IF x > hi THEN hi ELSE x

----------------------------------------------------------------------------
(* dsp/delay_line.rs *)

\* DelayLine::new(max_length: usize): any length, zero included, is accepted
DelayLine_new(max_length) ==
    [buffer |-> [i \in 0 .. max_length - 1 |-> 0],
     write_pos |-> 0,
     buffer_len |-> max_length]

\* self.buffer[self.write_pos] is an index out of bounds
DelayLine_write_panics(self) == self.write_pos \notin DOMAIN self.buffer

\* DelayLine_write adding to the slot instead of overwriting it
DelayLine_write_accumulate(self, sample) ==
    [self EXCEPT !.buffer = [self.buffer EXCEPT ![self.write_pos] = @ + sample]]

\* DelayLine_write storing the sample in every slot
DelayLine_write_fill(self, sample) ==
    [self EXCEPT !.buffer = [i \in DOMAIN self.buffer |-> sample]]

DelayLine_write(self, sample) ==
    [self EXCEPT !.buffer = [self.buffer EXCEPT ![self.write_pos] = sample]]

\* DelayLine_clamp without the lower limit
DelayLine_clamp_no_floor(self, delay_samples) ==
    Min(delay_samples, (self.buffer_len - 1) * ONE)

\* DelayLine_clamp with the upper limit at the full buffer length
DelayLine_clamp_full_len(self, delay_samples) ==
    Clamp(delay_samples, 0, self.buffer_len * ONE)

\* delay_samples.clamp(0.0, (self.buffer_len - 1) as f32)
DelayLine_clamp(self, delay_samples) ==
    Clamp(delay_samples, 0, (self.buffer_len - 1) * ONE)

\* x as usize: truncation, a negative x saturating to 0
AsUsize(x) == IF x < 0 THEN 0 ELSE x \div ONE

\* delay_clamped as usize
DelayLine_delay_int(self, delay_samples) ==
    AsUsize(DelayLine_clamp(self, delay_samples))

DelayLine_delay_frac(self, delay_samples) ==
    DelayLine_clamp(self, delay_samples) - DelayLine_delay_int(self, delay_samples) * ONE

\* DelayLine_index_a one slot off
DelayLine_index_a_off(self, delay_samples) ==
    (self.write_pos + self.buffer_len - DelayLine_delay_int(self, delay_samples) + 1)
        % self.buffer_len

DelayLine_index_a(self, delay_samples) ==
    (self.write_pos + self.buffer_len - DelayLine_delay_int(self, delay_samples))
        % self.buffer_len

\* DelayLine_index_b on the newer side of index_a
DelayLine_index_b_newer(self, delay_samples) ==
    (self.write_pos + self.buffer_len - DelayLine_delay_int(self, delay_samples) + 1)
        % self.buffer_len

\* DelayLine_index_b without the wrap
DelayLine_index_b_unwrapped(self, delay_samples) ==
    self.write_pos + self.buffer_len - DelayLine_delay_int(self, delay_samples) - 1

DelayLine_index_b(self, delay_samples) ==
    (self.write_pos + self.buffer_len - DelayLine_delay_int(self, delay_samples) - 1)
        % self.buffer_len

\* read() panics: buffer_len - 1 underflows and % buffer_len divides by zero on an
\* empty line, a negative usize intermediate, or an index out of bounds
DelayLine_read_panics(self, delay_samples) ==
    \/ self.buffer_len = 0
    \/ self.write_pos + self.buffer_len - DelayLine_delay_int(self, delay_samples) - 1 < 0
    \/ DelayLine_index_a(self, delay_samples) \notin DOMAIN self.buffer
    \/ DelayLine_index_b(self, delay_samples) \notin DOMAIN self.buffer

DelayLine_read(self, delay_samples) ==
    LET delay_frac == DelayLine_delay_frac(self, delay_samples)
        sample_a == self.buffer[DelayLine_index_a(self, delay_samples)]
        sample_b == self.buffer[DelayLine_index_b(self, delay_samples)]
    IN  Mul(sample_a, ONE - delay_frac) + Mul(sample_b, delay_frac)

\* % self.buffer_len divides by zero on an empty line
DelayLine_advance_panics(self) == self.buffer_len = 0

\* DelayLine_advance moving two slots on
DelayLine_advance_twice(self) ==
    [self EXCEPT !.write_pos = (self.write_pos + 2) % self.buffer_len]

DelayLine_advance(self) ==
    [self EXCEPT !.write_pos = (self.write_pos + 1) % self.buffer_len]

\* DelayLine_clear leaving the write position where it is
DelayLine_clear_keep_pos(self) ==
    [self EXCEPT !.buffer = [i \in DOMAIN self.buffer |-> 0]]

DelayLine_clear(self) ==
    [self EXCEPT !.buffer = [i \in DOMAIN self.buffer |-> 0], !.write_pos = 0]

----------------------------------------------------------------------------
(* The stand-alone DelayLine, as the unit tests of delay_line.rs drive it *)

NoRead == [delay |-> 0, value |-> 0, done |-> FALSE]

SampleVals == {0, ONE}

\* the delay amounts read() is called with: halves from -1.0 up
DelayVals(self) == {k * HALF : k \in -2 .. 2 * (self.buffer_len - 1 + MaxOver)}

DLInit ==
    /\ \E max_length \in 0 .. MaxCapacity : dl = DelayLine_new(max_length)
    /\ dlPanicked = FALSE
    /\ dlWritten = FALSE
    /\ dlHist = <<>>
    /\ dlTicked = TRUE
    /\ dlFresh = "new"
    /\ dlRead = NoRead

\* no stand-alone DelayLine is driven
DLNone ==
    /\ dl = DelayLine_new(0)
    /\ dlPanicked = FALSE
    /\ dlWritten = FALSE
    /\ dlHist = <<>>
    /\ dlTicked = TRUE
    /\ dlFresh = "new"
    /\ dlRead = NoRead

DLWrite(sample) ==
    /\ ~dlPanicked
    /\ dlFresh' = "used"
    /\ dlRead' = NoRead
    /\ IF DelayLine_write_panics(dl)
       THEN /\ dlPanicked' = TRUE
            /\ UNCHANGED <<dl, dlWritten, dlHist, dlTicked>>
       ELSE /\ dl' = DelayLine_write(dl, sample)
            /\ dlWritten' = TRUE
            /\ dlTicked' = (dlTicked /\ ~dlWritten)
            /\ dlHist' = IF dlTicked /\ ~dlWritten THEN dlHist ELSE <<>>
            /\ UNCHANGED dlPanicked
    /\ UNCHANGED <<plVars, flVars>>

DLAdvance ==
    /\ ~dlPanicked
    /\ (dlTicked /\ dlWritten) => Len(dlHist) < MaxDLTicks
    /\ dlFresh' = "used"
    /\ dlRead' = NoRead
    /\ IF DelayLine_advance_panics(dl)
       THEN /\ dlPanicked' = TRUE
            /\ UNCHANGED <<dl, dlWritten, dlHist, dlTicked>>
       ELSE /\ dl' = DelayLine_advance(dl)
            /\ dlWritten' = FALSE
            /\ dlTicked' = (dlTicked /\ dlWritten)
            /\ dlHist' = IF dlTicked /\ dlWritten
                         THEN Append(dlHist, dl.buffer[dl.write_pos])
                         ELSE <<>>
            /\ UNCHANGED dlPanicked
    /\ UNCHANGED <<plVars, flVars>>

DLRead(delay_samples) ==
    /\ ~dlPanicked
    /\ IF DelayLine_read_panics(dl, delay_samples)
       THEN /\ dlPanicked' = TRUE
            /\ dlRead' = NoRead
       ELSE /\ dlRead' = [delay |-> delay_samples,
                          value |-> DelayLine_read(dl, delay_samples),
                          done |-> TRUE]
            /\ UNCHANGED dlPanicked
    /\ UNCHANGED <<dl, dlWritten, dlHist, dlTicked, dlFresh, plVars, flVars>>

DLClear ==
    /\ ~dlPanicked
    /\ dlFresh = "used"
    /\ dl' = DelayLine_clear(dl)
    /\ dlWritten' = FALSE
    /\ dlHist' = <<>>
    /\ dlTicked' = TRUE
    /\ dlFresh' = "cleared"
    /\ dlRead' = NoRead
    /\ UNCHANGED <<dlPanicked, plVars, flVars>>

----------------------------------------------------------------------------
(* dsp/filter.rs *)

MinCutoffHz == 20          \* cutoff_hz.clamp(20.0, ...)
NyquistPercent == 49       \* ... sample_rate * 0.49
ExpTerms == 16             \* terms of the series that stands for f32::exp

\* 2.0 * PI
TwoPi == RoundDiv(62832 * ONE, 10000)

RECURSIVE ExpSeries(_, _, _)
\* sum of the terms x^j / j! for j = k .. ExpTerms, given the term for j = k - 1
ExpSeries(x, k, prev) ==
    IF k > ExpTerms THEN 0
    ELSE LET term == RoundDiv(prev * x, k * ONE)
         IN  term + ExpSeries(x, k + 1, term)

\* (-x).exp() for x >= 0, as 1 / e^x
ExpNeg(x) == RoundDiv(ONE * ONE, ONE + ExpSeries(x, 1, ONE))

\* OnePoleFilter_new with a coefficient of one half
OnePoleFilter_new_half == [coefficient |-> HALF, prev_output |-> 0]

OnePoleFilter_new == [coefficient |-> 0, prev_output |-> 0]

\* the upper clamp limit sample_rate * 0.49
OnePoleFilter_max_cutoff(sample_rate_hz) ==
    RoundDiv(sample_rate_hz * NyquistPercent * ONE, 100)

\* f32::clamp panics when its lower limit exceeds its upper limit
OnePoleFilter_set_cutoff_panics(sample_rate_hz) ==
    MinCutoffHz * ONE > OnePoleFilter_max_cutoff(sample_rate_hz)

\* OnePoleFilter_safe_cutoff without the lower limit
OnePoleFilter_safe_cutoff_no_floor(cutoff_hz, sample_rate_hz) ==
    Min(cutoff_hz, OnePoleFilter_max_cutoff(sample_rate_hz))

OnePoleFilter_safe_cutoff(cutoff_hz, sample_rate_hz) ==
    Clamp(cutoff_hz, MinCutoffHz * ONE, OnePoleFilter_max_cutoff(sample_rate_hz))

\* OnePoleFilter_set_cutoff moving the coefficient a quarter of the way to its
\* new value
OnePoleFilter_set_cutoff_eased(self, cutoff_hz, sample_rate_hz) ==
    [self EXCEPT !.coefficient =
        (3 * @ + ExpNeg(RoundDiv(Mul(TwoPi, OnePoleFilter_safe_cutoff(cutoff_hz, sample_rate_hz)),
                                 sample_rate_hz))) \div 4]

OnePoleFilter_set_cutoff(self, cutoff_hz, sample_rate_hz) ==
    [self EXCEPT !.coefficient =
        ExpNeg(RoundDiv(Mul(TwoPi, OnePoleFilter_safe_cutoff(cutoff_hz, sample_rate_hz)),
                        sample_rate_hz))]

\* OnePoleFilter_output with the filter memory subtracted instead of blended in
OnePoleFilter_output_overshoot(self, input) ==
    Mul(ONE + self.coefficient, input) - Mul(self.coefficient, self.prev_output)

\* the output of process(input); process() also stores it as prev_output
OnePoleFilter_output(self, input) ==
    Mul(ONE - self.coefficient, input) + Mul(self.coefficient, self.prev_output)

\* OnePoleFilter_process that does not store its output
OnePoleFilter_process_forgetful(self, input) == self

OnePoleFilter_process(self, input) ==
    [self EXCEPT !.prev_output = OnePoleFilter_output(self, input)]

\* OnePoleFilter_reset that leaves the filter as it is
OnePoleFilter_reset_kept(self) == self

OnePoleFilter_reset(self) == [self EXCEPT !.prev_output = 0]

----------------------------------------------------------------------------
(* The stand-alone OnePoleFilter, as the unit tests of filter.rs drive it *)

MaxRun == 40           \* process() calls in the run of one input that is watched
MaxWarm == 2           \* process() calls in the run before it

\* sample rates set_cutoff() is called with; the lowest makes 0.49 * sample_rate
\* fall below 20 Hz
FilterRates == {32, 44, 48, 600}

\* cutoffs in Hz, from below the lower clamp limit to above every upper one
FilterCutoffs == {10, 20, 200, 8000}

\* inputs of process()
FilterInputs == {-ONE, 0, HALF, ONE}

NoCall == [op |-> "new", input |-> 0, output |-> 0, cutoff |-> 0, rate |-> 0,
           prev_output |-> 0]

\* no run of process() calls is under way; k runs have been
NoRun(k) == [input |-> 0, n |-> 0, start |-> 0, k |-> k]

FLInit ==
    /\ flt = OnePoleFilter_new
    /\ fltCut = FALSE
    /\ fltPanicked = FALSE
    /\ fltLast = NoCall
    /\ fltRun = NoRun(0)

\* what a call found: the filter memory as it was
Found(op) == [NoCall EXCEPT !.op = op, !.prev_output = flt.prev_output]

\* set_cutoff(cutoff_hz, sample_rate), called before or early in a run
FSetCutoff(cutoff_hz, sample_rate_hz) ==
    /\ ~fltPanicked
    /\ fltRun.n <= MaxWarm
    /\ IF OnePoleFilter_set_cutoff_panics(sample_rate_hz)
       THEN /\ fltPanicked' = TRUE
            /\ UNCHANGED <<flt, fltCut, fltLast, fltRun>>
       ELSE /\ flt' = OnePoleFilter_set_cutoff(flt, cutoff_hz, sample_rate_hz)
            /\ fltCut' = TRUE
            /\ fltLast' = [Found("set_cutoff") EXCEPT !.cutoff = cutoff_hz,
                                                     !.rate = sample_rate_hz]
            /\ fltRun' = NoRun(fltRun.k)
            /\ UNCHANGED fltPanicked
    /\ UNCHANGED <<dlVars, plVars>>

\* process(input): the first run of equal inputs is MaxWarm calls at most, the
\* second MaxRun; a run ends when the output has stopped moving
FProcess(input) ==
    /\ ~fltPanicked
    /\ IF fltRun.n > 0 /\ fltRun.input = input
       THEN /\ fltRun.n < (IF fltRun.k = 1 THEN MaxWarm ELSE MaxRun)
            /\ OnePoleFilter_output(flt, input) # flt.prev_output
            /\ fltRun' = [fltRun EXCEPT !.n = @ + 1]
       ELSE /\ fltRun.k < 2
            /\ fltRun' = [input |-> input, n |-> 1, start |-> flt.prev_output,
                          k |-> fltRun.k + 1]
    /\ flt' = OnePoleFilter_process(flt, input)
    /\ fltLast' = [Found("process") EXCEPT !.input = input,
                                          !.output = OnePoleFilter_output(flt, input)]
    /\ UNCHANGED <<fltCut, fltPanicked, dlVars, plVars>>

FReset ==
    /\ ~fltPanicked
    /\ fltLast.op # "reset"
    /\ flt' = OnePoleFilter_reset(flt)
    /\ fltLast' = Found("reset")
    /\ fltRun' = NoRun(fltRun.k)
    /\ UNCHANGED <<fltCut, fltPanicked, dlVars, plVars>>

FLNext ==
    \/ \E cutoff \in FilterCutoffs, rate \in FilterRates : FSetCutoff(cutoff * ONE, rate)
    \/ \E input \in FilterInputs : FProcess(input)
    \/ FReset

----------------------------------------------------------------------------
(* params.rs: the four parameters, as the values their smoothers yield *)

Percent(n) == RoundDiv(n * ONE, 100)

DefaultParams ==
    [delay_time |-> 500 * ONE, feedback |-> Percent(40), mix |-> Percent(50),
     filter_cutoff |-> 8000 * ONE]

ParamNames == {"delay_time", "feedback", "mix", "filter_cutoff"}

\* values within the declared ranges: 100..2000 ms, 0..0.95, 0..1, 200..20000 Hz
ParamVals ==
    [delay_time |-> {100 * ONE, 500 * ONE},
     feedback |-> {0, Percent(40)},
     mix |-> {0, HALF, ONE},
     filter_cutoff |-> {8000 * ONE}]

\* the values of the echo scenarios
EchoParamVals ==
    [delay_time |-> {125 * ONE, 250 * ONE, 500 * ONE, 2000 * ONE},
     feedback |-> {0, HALF, Percent(40)},
     mix |-> {HALF, ONE},
     filter_cutoff |-> {8000 * ONE}]

\* .with_smoother(SmoothingStyle::Linear(ms)): the length of each parameter's ramp
SmoothingMs == [delay_time |-> 50, feedback |-> 20, mix |-> 20, filter_cutoff |-> 50]

\* the sample ticks a ramp takes: the smoothing time in samples, to the nearest
Smoother_num_steps(name, sample_rate_hz) ==
    RoundDiv(SmoothingMs[name] * sample_rate_hz, 1000)

\* a smoother that has arrived: next() yields value and changes nothing
Smoother_at(value) == [target |-> value, steps_left |-> 0, step_size |-> 0]

\* the host moves a parameter: its smoother starts a linear ramp from current
Smoother_set_target(name, current, target, sample_rate_hz) ==
    LET steps == Smoother_num_steps(name, sample_rate_hz)
    IN  [target |-> target,
         steps_left |-> steps,
         step_size |-> IF steps > 0 THEN RoundDiv(target - current, steps) ELSE 0]

\* smoothed.next(): one step along the ramp; the value it yields and the smoother
\* it leaves
Smoother_next(self, current) ==
    IF self.steps_left > 0
    THEN [value |-> IF self.steps_left = 1 THEN self.target ELSE current + self.step_size,
          smoother |-> [self EXCEPT !.steps_left = @ - 1]]
    ELSE [value |-> self.target, smoother |-> self]

----------------------------------------------------------------------------
(* lib.rs *)

DefaultSampleRate == 44100     \* the placeholder of LovelessDelay::default()
MaxDelayTenths == 21           \* MAX_DELAY_SECONDS = 2.1
MaxChannels == 2               \* AUDIO_IO_LAYOUTS: stereo and mono

\* delay_ms * sample_rate / 1000.0, rounded to nearest, ties to even; the product is
\* taken in two parts to stay within the integers of the model checker
calculate_delay_samples(delay_ms, sample_rate_hz) ==
    LET low == (delay_ms % 1000) * sample_rate_hz
        q == (delay_ms \div 1000) * sample_rate_hz + low \div 1000
        r == low % 1000
    IN  IF 2 * r < 1000 THEN q
        ELSE IF 2 * r > 1000 THEN q + 1
        ELSE IF q % 2 = 0 THEN q ELSE q + 1

\* max_delay_samples for the 2000 ms of the longest delay alone
max_delay_samples_no_headroom(sample_rate_hz) == 2 * sample_rate_hz

\* (MAX_DELAY_SECONDS * self.sample_rate) as usize
max_delay_samples(sample_rate_hz) == (MaxDelayTenths * sample_rate_hz) \div 10

NoTick ==
    [processed |-> FALSE, input |-> 0, delay_samps |-> 0, feedback |-> 0, mix |-> 0,
     write_pos |-> 0, prev_output |-> 0, coefficient |-> 0, delayed |-> 0,
     filtered |-> 0, written |-> 0, output |-> 0]

\* Step 3 with the scaling left out
feedback_sample_unscaled(filtered, feedback) == filtered

\* Step 3 with the feedback doubled
feedback_sample_doubled(filtered, feedback) == 2 * Mul(filtered, feedback)

\* Step 3: filtered * feedback
feedback_sample(filtered, feedback) == Mul(filtered, feedback)

\* Step 5 taking the wet signal after the filter
output_sample_post_filter(input_sample, delayed_sample, filtered, mix) ==
    Mul(input_sample, ONE - mix) + Mul(filtered, mix)

\* Step 5: input_sample * (1.0 - mix) + delayed_sample * mix; the filtered sample
\* is at hand but takes no part
output_sample(input_sample, delayed_sample, filtered, mix) ==
    Mul(input_sample, ONE - mix) + Mul(delayed_sample, mix)

\* what one channel's tick leaves behind: the new delay line, the new filter and
\* the record of the values it computed
tick_result(delay_line, filter, delay_line2, filter1, filter2, input_sample, p, delay_samps, delayed_sample, filtered, written, output) ==
    [delay_line |-> delay_line2,
     filter |-> filter2,
     did |-> [processed |-> TRUE, input |-> input_sample,
              delay_samps |-> delay_samps, feedback |-> p.feedback, mix |-> p.mix,
              write_pos |-> delay_line.write_pos,
              prev_output |-> filter.prev_output,
              coefficient |-> filter1.coefficient,
              delayed |-> delayed_sample, filtered |-> filtered,
              written |-> written, output |-> output]]

\* the inner loop body with Step 6 moved in front of Step 4
process_channel_advance_first(delay_line, filter, input_sample, p, sample_rate_hz) ==
    LET delay_samps == calculate_delay_samples(p.delay_time, sample_rate_hz)
        filter1 == OnePoleFilter_set_cutoff(filter, p.filter_cutoff, sample_rate_hz)
        delayed_sample == DelayLine_read(delay_line, delay_samps)
        filtered == OnePoleFilter_output(filter1, delayed_sample)
        filter2 == OnePoleFilter_process(filter1, delayed_sample)
        written == input_sample + feedback_sample(filtered, p.feedback)
        delay_line1 == DelayLine_advance(delay_line)
        output == output_sample(input_sample, delayed_sample, filtered, p.mix)
        delay_line2 == DelayLine_write(delay_line1, written)
    IN  tick_result(delay_line, filter, delay_line2, filter1, filter2, input_sample, p,
                    delay_samps, delayed_sample, filtered, written, output)

\* One channel of one sample tick (the body of the inner loop of process()):
\* set_cutoff, Step 1 read, Step 2 filter, Step 3 scale, Step 4 write, Step 5 mix,
\* Step 6 advance.
process_channel(delay_line, filter, input_sample, p, sample_rate_hz) ==
    LET delay_samps == calculate_delay_samples(p.delay_time, sample_rate_hz)
        filter1 == OnePoleFilter_set_cutoff(filter, p.filter_cutoff, sample_rate_hz)
        delayed_sample == DelayLine_read(delay_line, delay_samps)
        filtered == OnePoleFilter_output(filter1, delayed_sample)
        filter2 == OnePoleFilter_process(filter1, delayed_sample)
        written == input_sample + feedback_sample(filtered, p.feedback)
        delay_line1 == DelayLine_write(delay_line, written)
        output == output_sample(input_sample, delayed_sample, filtered, p.mix)
        delay_line2 == DelayLine_advance(delay_line1)
    IN  tick_result(delay_line, filter, delay_line2, filter1, filter2, input_sample, p,
                    delay_samps, delayed_sample, filtered, written, output)

\* bits kept behind the binary point while a logarithm is taken
LogBits == 14

RECURSIVE Log2Int(_)
\* how often m (> 0, below 2^LogBits) must be doubled to reach [2^LogBits, 2 * 2^LogBits)
Log2Int(m) == IF m >= 2 ^ LogBits THEN 0 ELSE 1 + Log2Int(2 * m)

RECURSIVE Log2Frac(_, _)
\* the binary digits after the point of log2(m / 2^LogBits) for m in [2^LogBits,
\* 2 * 2^LogBits), by repeated squaring; bit is the weight of the next digit
Log2Frac(m, bit) ==
    IF bit = 0 THEN 0
    ELSE LET sq == RoundDiv(m * m, 2 ^ LogBits)
         IN  IF sq >= 2 * 2 ^ LogBits
             THEN bit + Log2Frac(sq \div 2, bit \div 2)
             ELSE Log2Frac(sq, bit \div 2)

\* log2(x) for 0 < x < 1.0
Log2(x) ==
    LET m == x * 2 ^ (LogBits - 10)
        shifts == Log2Int(m)
    IN  Log2Frac(m * 2 ^ shifts, HALF) - shifts * ONE

\* f32::log10(x) for 0 < x < 1.0: log2(x) * log10(2)
Log10(x) == -RoundDiv((-Log2(x)) * 30103, 100000)

\* repeats = -3.0 / feedback.log10()
tail_repeats(feedback) == RoundDiv(3 * ONE * ONE, -Log10(feedback))

\* (x * y) as u32 for x, y >= 0: the product truncated to a whole number, taken in
\* parts to stay within the integers of the model checker
MulAsU32(x, y) ==
    LET xh == x \div ONE
        xl == x % ONE
        yh == y \div ONE
        yl == y % ONE
    IN  xh * yh + (xh * yl + xl * yh + (xl * yl) \div ONE) \div ONE

\* feedback > 0.001
tail_has_feedback(feedback) == feedback * 1000 > ONE

\* tail_samples without the logarithm: one repeat per decade is taken for three
tail_samples_one_decade(feedback, delay_samps) ==
    IF tail_has_feedback(feedback)
    THEN MulAsU32(RoundDiv(ONE * ONE, -Log10(feedback)), delay_samps)
    ELSE AsUsize(delay_samps)

\* tail_samples: (repeats * delay_samps) as u32 if feedback > 0.001, else
\* delay_samps as u32
tail_samples(feedback, delay_samps) ==
    IF tail_has_feedback(feedback)
    THEN MulAsU32(tail_repeats(feedback), delay_samps)
    ELSE AsUsize(delay_samps)

\* what status holds before any call, and while process() has not returned
NoStatus(op) == [op |-> op, dirty |-> FALSE, tail |-> 0]

\* some delay line or filter holds something other than silence at cursor 0
Dirty ==
    \/ \E c \in DOMAIN delay_lines :
          \/ delay_lines[c].write_pos # 0
          \/ \E i \in DOMAIN delay_lines[c].buffer : delay_lines[c].buffer[i] # 0
    \/ \E c \in DOMAIN filters : filters[c].prev_output # 0

\* channel_sample handing every channel the sample of the first one
channel_sample_first(frame, channel_idx) == frame[1]

\* the sample of a channel in the frame of a tick: channel_samples.iter_mut().enumerate()
channel_sample(frame, channel_idx) == frame[channel_idx]

\* a channel without state whose sample is zeroed
skipped_channel_muted(input_sample) ==
    [delay_line |-> 0, filter |-> 0, did |-> [NoTick EXCEPT !.input = input_sample]]

\* a channel without a delay line or without a filter: `continue`, the sample stays
skipped_channel(input_sample) ==
    [delay_line |-> 0, filter |-> 0,
     did |-> [NoTick EXCEPT !.input = input_sample, !.output = input_sample]]

\* a channel the plugin holds a delay line and a filter for
has_state(channel_idx) ==
    channel_idx <= Len(delay_lines) /\ channel_idx <= Len(filters)

process_channel_panics(channel_idx, p) ==
    /\ has_state(channel_idx)
    /\ \/ OnePoleFilter_set_cutoff_panics(sample_rate)
       \/ DelayLine_read_panics(delay_lines[channel_idx],
                                calculate_delay_samples(p.delay_time, sample_rate))
       \/ DelayLine_write_panics(delay_lines[channel_idx])
       \/ DelayLine_advance_panics(delay_lines[channel_idx])

PlInit ==
    /\ sample_rate = DefaultSampleRate
    /\ delay_lines = <<>>
    /\ filters = <<>>
    /\ params = DefaultParams
    /\ smoothers = [name \in ParamNames |-> Smoother_at(DefaultParams[name])]
    /\ pc = "idle"
    /\ tick = 0
    /\ buf_channels = 0
    /\ ins = <<>>
    /\ outs = <<>>
    /\ last = <<>>
    /\ status = NoStatus("default")

\* initialize(): num_channels from the layout, sample rate from the buffer config
initialize(num_channels, sample_rate_hz) ==
    /\ pc = "idle"
    /\ sample_rate' = sample_rate_hz
    /\ IF max_delay_samples(sample_rate_hz) = 0
       THEN \* NonZeroUsize::new(0).expect(..) panics
            /\ pc' = "panicked"
            /\ UNCHANGED <<delay_lines, filters, tick, ins, outs, last, status>>
       ELSE /\ delay_lines' = [i \in 1 .. num_channels |->
                                  DelayLine_new(max_delay_samples(sample_rate_hz))]
            /\ filters' = [i \in 1 .. num_channels |-> OnePoleFilter_new]
            /\ tick' = 0
            /\ ins' = <<>>
            /\ outs' = <<>>
            /\ last' = <<>>
            /\ status' = [NoStatus("initialize") EXCEPT !.dirty = Dirty]
            /\ UNCHANGED pc
    /\ UNCHANGED <<params, smoothers, buf_channels>>

reset ==
    /\ pc = "idle"
    /\ tick > 0
    /\ delay_lines' = [i \in 1 .. Len(delay_lines) |-> DelayLine_clear(delay_lines[i])]
    /\ filters' = [i \in 1 .. Len(filters) |-> OnePoleFilter_reset(filters[i])]
    /\ tick' = 0
    /\ ins' = <<>>
    /\ outs' = <<>>
    /\ last' = <<>>
    /\ status' = [NoStatus("reset") EXCEPT !.dirty = Dirty]
    /\ UNCHANGED <<sample_rate, params, smoothers, pc, buf_channels>>

\* the host sets a parameter before the first sample of a run; its smoother
\* yields value from then on
set_param(name, value) ==
    /\ pc # "panicked"
    /\ tick = 0
    /\ value # params[name]
    /\ params' = [params EXCEPT ![name] = value]
    /\ smoothers' = [smoothers EXCEPT ![name] = Smoother_at(value)]
    /\ UNCHANGED <<sample_rate, delay_lines, filters, pc, tick, buf_channels,
                   ins, outs, last, status>>

\* the host moves a parameter between two blocks; its smoother ramps to value
set_target(name, value) ==
    /\ pc = "idle"
    /\ value # smoothers[name].target
    /\ smoothers' = [smoothers EXCEPT ![name] =
                        Smoother_set_target(name, params[name], value, sample_rate)]
    /\ UNCHANGED <<sample_rate, delay_lines, filters, params, pc, tick, buf_channels,
                   ins, outs, last, status>>

\* process() is entered with a buffer of num_channels channels; the host keeps
\* the channel count for the length of a run
process_begin(num_channels) ==
    /\ pc = "idle"
    /\ tick = 0 \/ num_channels = buf_channels
    /\ pc' = "processing"
    /\ buf_channels' = num_channels
    /\ status' = NoStatus("process")
    /\ UNCHANGED <<sample_rate, delay_lines, filters, params, smoothers, tick, ins, outs,
                   last>>

\* one iteration of `for mut channel_samples in buffer.iter_samples()`
process_sample(frame, max_ticks) ==
    /\ pc = "processing"
    /\ tick < max_ticks
    /\ Len(frame) = buf_channels
    /\ LET pulled == [name \in ParamNames |-> Smoother_next(smoothers[name], params[name])]
           p == [name \in ParamNames |-> pulled[name].value]
       IN  IF \E c \in 1 .. buf_channels : process_channel_panics(c, p)
           THEN /\ pc' = "panicked"
                /\ UNCHANGED <<delay_lines, filters, params, smoothers, tick, ins, outs,
                               last>>
           ELSE LET step == [c \in 1 .. buf_channels |->
                               IF has_state(c)
                               THEN process_channel(delay_lines[c], filters[c],
                                                    channel_sample(frame, c),
                                                    p, sample_rate)
                               ELSE skipped_channel(channel_sample(frame, c))]
                IN  /\ delay_lines' = [c \in 1 .. Len(delay_lines) |->
                                         IF c <= buf_channels /\ has_state(c)
                                         THEN step[c].delay_line ELSE delay_lines[c]]
                    /\ filters' = [c \in 1 .. Len(filters) |->
                                     IF c <= buf_channels /\ has_state(c)
                                     THEN step[c].filter ELSE filters[c]]
                    /\ last' = [c \in 1 .. buf_channels |-> step[c].did]
                    /\ ins' = Append(ins, frame)
                    /\ outs' = Append(outs, [c \in 1 .. buf_channels |-> step[c].did.output])
                    /\ tick' = tick + 1
                    /\ params' = p
                    /\ smoothers' = [name \in ParamNames |-> pulled[name].smoother]
                    /\ UNCHANGED pc
    /\ UNCHANGED <<sample_rate, buf_channels, status>>

\* the buffer is exhausted: process() returns ProcessStatus::Tail(tail_samples)
process_end ==
    /\ pc = "processing"
    /\ pc' = "idle"
    /\ LET delay_ms == Smoother_next(smoothers.delay_time, params.delay_time)
           feedback == Smoother_next(smoothers.feedback, params.feedback)
       IN  /\ params' = [params EXCEPT !.delay_time = delay_ms.value,
                                        !.feedback = feedback.value]
           /\ smoothers' = [smoothers EXCEPT !.delay_time = delay_ms.smoother,
                                              !.feedback = feedback.smoother]
           /\ status' = [status EXCEPT !.tail =
                            tail_samples(feedback.value,
                                         calculate_delay_samples(delay_ms.value,
                                                                 sample_rate))]
    /\ UNCHANGED <<sample_rate, delay_lines, filters, tick, buf_channels, ins, outs, last>>

----------------------------------------------------------------------------
(* Specifications *)

MaxTicks == 5          \* sample ticks after initialize()/reset()
MaxReplay == 8         \* sample ticks played from a state to compare what it yields
MaxPulses == 1         \* non-silent input frames among them, the first tick's aside
MaxEchoTicks == 104    \* sample ticks of an echo scenario

SampleRates == {48}
EchoSampleRates == {0, 44, 48}

InputVals == {0, ONE}

Frames(n) == [1 .. n -> InputVals]

Silent(frame) == \A c \in DOMAIN frame : frame[c] = 0

\* the non-silent frames fed after the first tick
Pulses == Cardinality({t \in DOMAIN ins : t > 1 /\ ~Silent(ins[t])})

\* the next frame of an impulse: 1.0 at tick 0, then zeros
ImpulseFrame == [c \in 1 .. buf_channels |-> IF tick = 0 THEN ONE ELSE 0]

\* the stand-alone delay line, driven through its API
DLNext ==
    \/ \E sample \in SampleVals : DLWrite(sample)
    \/ DLAdvance
    \/ \E delay_samples \in DelayVals(dl) : DLRead(delay_samples)
    \/ DLClear

InitDelayLine == DLInit /\ PlInit /\ FLInit

SpecDelayLine == InitDelayLine /\ [][DLNext]_vars

InitFilter == DLNone /\ PlInit /\ FLInit

\* the stand-alone filter, driven through its API
SpecFilter == InitFilter /\ [][FLNext]_vars

\* the plugin, driven by the host
Next ==
    \/ \E n \in 1 .. MaxChannels, sr \in SampleRates : initialize(n, sr) /\ UNCHANGED <<dlVars, flVars>>
    \/ reset /\ UNCHANGED <<dlVars, flVars>>
    \/ \E name \in ParamNames : \E value \in ParamVals[name] :
          set_param(name, value) /\ UNCHANGED <<dlVars, flVars>>
    \/ \E n \in 1 .. MaxChannels : process_begin(n) /\ UNCHANGED <<dlVars, flVars>>
    \/ \E frame \in Frames(buf_channels) :
          /\ tick = 0 \/ Silent(frame) \/ Pulses < MaxPulses
          /\ process_sample(frame, MaxTicks)
          /\ UNCHANGED <<dlVars, flVars>>
    \/ process_end /\ UNCHANGED <<dlVars, flVars>>

Init == DLNone /\ PlInit /\ FLInit

Spec == Init /\ [][Next]_vars

\* the plugin fed an impulse under parameters that stay as set before the first tick
EchoNext ==
    \/ \E n \in 1 .. MaxChannels, sr \in EchoSampleRates :
          initialize(n, sr) /\ UNCHANGED <<dlVars, flVars>>
    \/ reset /\ UNCHANGED <<dlVars, flVars>>
    \/ \E name \in ParamNames : \E value \in EchoParamVals[name] :
          set_param(name, value) /\ UNCHANGED <<dlVars, flVars>>
    \/ \E n \in 1 .. MaxChannels : process_begin(n) /\ UNCHANGED <<dlVars, flVars>>
    \/ process_sample(ImpulseFrame, MaxEchoTicks) /\ UNCHANGED <<dlVars, flVars>>
    \/ process_end /\ UNCHANGED <<dlVars, flVars>>

SpecEcho == Init /\ [][EchoNext]_vars

MaxSmoothTicks == 6    \* sample ticks while parameters are being moved

\* a rate at which the ramps take 5 ticks (50 ms) and 2 ticks (20 ms)
SmoothSampleRates == {100}

\* where the host moves each parameter to, away from its default
SmoothParamVals ==
    [delay_time |-> {100 * ONE},
     feedback |-> {0},
     mix |-> {ONE},
     filter_cutoff |-> {2000 * ONE}]

\* the plugin, once activated, fed an impulse in blocks of any length while the
\* host moves the parameters between the blocks
SmoothNext ==
    \/ \E n \in 1 .. MaxChannels, sr \in SmoothSampleRates :
          /\ tick = 0
          /\ initialize(n, sr)
          /\ UNCHANGED <<dlVars, flVars>>
    \/ \E name \in ParamNames : \E value \in SmoothParamVals[name] :
          /\ Len(delay_lines) > 0
          /\ set_target(name, value)
          /\ UNCHANGED <<dlVars, flVars>>
    \/ \E n \in 1 .. MaxChannels : process_begin(n) /\ UNCHANGED <<dlVars, flVars>>
    \/ process_sample(ImpulseFrame, MaxSmoothTicks) /\ UNCHANGED <<dlVars, flVars>>
    \/ process_end /\ UNCHANGED <<dlVars, flVars>>

SpecSmooth == Init /\ [][SmoothNext]_vars

MaxLoopTicks == 60     \* sample ticks of a run that keeps the feedback loop fed

\* a rate at which the shortest delay, 100 ms, is 5 samples
LoopSampleRates == {50}

\* the largest feedback the parameter allows: 0.95, rounded down
MaxFeedback == (95 * ONE) \div 100

\* the values set before the first tick of a run of the loop
LoopParamVals ==
    [delay_time |-> {100 * ONE},
     feedback |-> {HALF, MaxFeedback},
     mix |-> {ONE},
     filter_cutoff |-> {200 * ONE}]

\* where the delay time is moved to during the run
LoopDelayTargets == {150 * ONE}

\* the next frame of an input held at full scale
LoopFrame == [c \in 1 .. buf_channels |-> ONE]

\* the plugin in mono, fed a full-scale input while the delay time is moved
LoopNext ==
    \/ \E sr \in LoopSampleRates :
          /\ tick = 0
          /\ initialize(1, sr)
          /\ UNCHANGED <<dlVars, flVars>>
    \/ \E name \in ParamNames : \E value \in LoopParamVals[name] :
          set_param(name, value) /\ UNCHANGED <<dlVars, flVars>>
    \/ \E value \in LoopDelayTargets :
          /\ Len(delay_lines) > 0
          /\ set_target("delay_time", value)
          /\ UNCHANGED <<dlVars, flVars>>
    \/ process_begin(1) /\ UNCHANGED <<dlVars, flVars>>
    \/ process_sample(LoopFrame, MaxLoopTicks) /\ UNCHANGED <<dlVars, flVars>>
    \/ process_end /\ UNCHANGED <<dlVars, flVars>>

SpecLoop == Init /\ [][LoopNext]_vars

----------------------------------------------------------------------------
(* Properties of the stand-alone delay line (SpecDelayLine) *)

Capacity == dl.buffer_len
Ticks == Len(dlHist)

\* dl has only been driven by whole write-then-advance ticks, and is between two
AfterTicks == dlTicked /\ ~dlWritten /\ ~dlPanicked /\ Capacity >= 1

\* C1: after n write+advance ticks on a line of capacity C, read(k) for every whole
\* k with 1 <= k <= min(n, C-1) returns exactly the sample written k ticks ago,
\* also after the cursor has wrapped.
C1_ExactLag ==
    AfterTicks =>
        \A k \in 1 .. Min(Ticks, Capacity - 1) :
            /\ ~DelayLine_read_panics(dl, k * ONE)
            /\ DelayLine_read(dl, k * ONE) = dlHist[Ticks - k + 1]

\* C1 witness: a wrapped line of capacity >= 3 whose read(2.0) returned the sample
\* written two ticks ago, which differs from the latest one
C1_Witness ==
    /\ AfterTicks
    /\ Capacity >= 3
    /\ Ticks > Capacity
    /\ dlRead.done
    /\ dlRead.delay = 2 * ONE
    /\ dlRead.value = dlHist[Ticks - 1]
    /\ dlHist[Ticks - 1] # dlHist[Ticks]

\* the lag read() grants a delay amount beyond capacity - 1
OverlongLag == IF Capacity = 1 THEN 1 ELSE Capacity - 1

\* C2 as stated: once more than C ticks were fed, read with a delay amount greater
\* than C-1 returns the oldest sample still retained in storage (written C ticks ago).
C2_OldestRetained ==
    (AfterTicks /\ Ticks > Capacity) =>
        \A x \in DelayVals(dl) :
            x > (Capacity - 1) * ONE =>
                DelayLine_read(dl, x) = dlHist[Ticks - Capacity + 1]

\* C2 amended: once more than C ticks were fed, read with a delay amount greater
\* than C-1 returns the sample written C-1 ticks ago (for C = 1, the one sample held);
\* storage still retains an older one, written C ticks ago, at the write cursor.
C2_OverlongDelay ==
    (AfterTicks /\ Ticks > Capacity) =>
        /\ \A x \in DelayVals(dl) :
              x > (Capacity - 1) * ONE =>
                  DelayLine_read(dl, x) = dlHist[Ticks - OverlongLag + 1]
        /\ dl.buffer[dl.write_pos] = dlHist[Ticks - Capacity + 1]

\* C2 witness: a wrapped line whose over-long read returned the sample written
\* C-1 ticks ago while an older, different one is still in storage
C2_Witness ==
    /\ AfterTicks
    /\ Capacity >= 2
    /\ Ticks > Capacity
    /\ dlRead.done
    /\ dlRead.delay > (Capacity - 1) * ONE
    /\ dlRead.value = dlHist[Ticks - Capacity + 2]
    /\ dl.buffer[dl.write_pos] = dlHist[Ticks - Capacity + 1]
    /\ dlHist[Ticks - Capacity + 2] # dlHist[Ticks - Capacity + 1]

\* the clamped delay amount, its whole part and its fraction
Clamped(x) == IF x < 0 THEN 0 ELSE IF x > (Capacity - 1) * ONE THEN (Capacity - 1) * ONE ELSE x
Whole(x) == Clamped(x) \div ONE
Fraction(x) == Clamped(x) - Whole(x) * ONE
SlotA(x) == (dl.write_pos + Capacity - Whole(x)) % Capacity
SlotB(x) == (dl.write_pos + Capacity - Whole(x) - 1) % Capacity

\* C7: read returns storage[a]*(1-f) + storage[b]*f for the clamped delay d + f, with
\* a = (write_cursor + capacity - d) mod capacity and b one slot further back; with
\* f = 0 it is exactly storage[a]; between two recorded lags it blends the two
\* samples; after writing 0.0 then 1.0, read(1.5) = 0.5.
C7_FractionalRead ==
    (~dlPanicked /\ Capacity >= 1) =>
        /\ \A x \in DelayVals(dl) :
              /\ DelayLine_read(dl, x) =
                    Mul(dl.buffer[SlotA(x)], ONE - Fraction(x))
                        + Mul(dl.buffer[SlotB(x)], Fraction(x))
              /\ Fraction(x) = 0 => DelayLine_read(dl, x) = dl.buffer[SlotA(x)]
              /\ (AfterTicks /\ 1 <= Whole(x) /\ Whole(x) + 1 <= Min(Ticks, Capacity - 1)) =>
                    DelayLine_read(dl, x) =
                        Mul(dlHist[Ticks - Whole(x) + 1], ONE - Fraction(x))
                            + Mul(dlHist[Ticks - Whole(x)], Fraction(x))
        /\ (AfterTicks /\ dlHist = <<0, ONE>> /\ Capacity >= 3) =>
              DelayLine_read(dl, ONE + HALF) = HALF

\* C7 witness: read(1.5) = 0.5 after the ticks 0.0, 1.0
C7_Witness ==
    /\ AfterTicks
    /\ dlHist = <<0, ONE>>
    /\ dlRead.done
    /\ dlRead.delay = ONE + HALF
    /\ dlRead.value = HALF

\* C8: read(x) with x < 0 returns what read(0) returns, read(x) with x > capacity-1
\* what read(capacity-1) returns, and no call on a line of capacity >= 1 fails.
C8_DelayClamped ==
    /\ dlPanicked => Capacity = 0
    /\ (~dlPanicked /\ Capacity >= 1) =>
          \A x \in DelayVals(dl) :
              /\ ~DelayLine_read_panics(dl, x)
              /\ x < 0 => DelayLine_read(dl, x) = DelayLine_read(dl, 0)
              /\ x > (Capacity - 1) * ONE =>
                    DelayLine_read(dl, x) = DelayLine_read(dl, (Capacity - 1) * ONE)

\* C8 witness: a read with a negative delay amount that returned a sample which
\* differs from its older neighbour
C8_Witness ==
    /\ Capacity >= 2
    /\ dlRead.done
    /\ dlRead.delay < 0
    /\ dlRead.value = dl.buffer[dl.write_pos]
    /\ dlRead.value # dl.buffer[(dl.write_pos + Capacity - 1) % Capacity]

\* C9 as stated: no DelayLine of capacity 0 on which write/read/advance could be
\* invoked ever exists, so no call on a delay line fails.
C9_NoZeroCapacity == Capacity >= 1 /\ ~dlPanicked

\* C10: a fresh line, and a line after clear() following any calls, has every slot
\* 0.0 and write cursor 0, and read(x) = 0.0 for every x in [0, capacity-1].
C10_Silence ==
    dlFresh \in {"new", "cleared"} =>
        /\ \A i \in DOMAIN dl.buffer : dl.buffer[i] = 0
        /\ dl.write_pos = 0
        /\ \A x \in DelayVals(dl) :
              (0 <= x /\ x <= (Capacity - 1) * ONE) =>
                  ~DelayLine_read_panics(dl, x) /\ DelayLine_read(dl, x) = 0

\* C10 witness: a cleared line of capacity >= 2 that was read
C10_Witness ==
    /\ dlFresh = "cleared"
    /\ Capacity >= 2
    /\ dlRead.done
    /\ dlRead.delay = ONE
    /\ dlRead.value = 0


----------------------------------------------------------------------------
(* Properties of the plugin's sample tick (Spec) *)

\* the channels of the last tick that went through a delay line and a filter
Processed == {c \in DOMAIN last : last[c].processed}

\* the delay amount in samples under the parameters in force
DelaySamps == calculate_delay_samples(params.delay_time, sample_rate)

\* C3: on every tick of an initialized channel, with delayed the read at
\* delay_ms*sample_rate/1000 samples taken before the write, the value stored at the
\* write cursor is input + feedback * filter.process(delayed), the coefficient being
\* set for this tick's cutoff first, and the output is input*(1-mix) + delayed*mix
\* with the pre-filter delayed sample; mix = 0 gives output = input and mix = 1
\* gives output = delayed.
C3_SignalFlow ==
    pc # "panicked" =>
        \A c \in Processed :
            LET did == last[c]
                line == delay_lines[c]
                fresh == OnePoleFilter_set_cutoff(OnePoleFilter_new, params.filter_cutoff,
                                                  sample_rate)
            IN  /\ did.input = ins[tick][c]
                /\ did.output = outs[tick][c]
                /\ did.delay_samps = DelaySamps
                \* the read taken before the write: one lag further after the advance
                /\ did.delayed = DelayLine_read(line, DelaySamps + ONE)
                /\ did.coefficient = fresh.coefficient
                /\ did.filtered = Mul(ONE - did.coefficient, did.delayed)
                                    + Mul(did.coefficient, did.prev_output)
                /\ filters[c].prev_output = did.filtered
                /\ line.buffer[did.write_pos] = did.input + Mul(did.filtered, params.feedback)
                /\ did.output = Mul(did.input, ONE - params.mix) + Mul(did.delayed, params.mix)
                /\ params.mix = 0 => did.output = did.input
                /\ params.mix = ONE => did.output = did.delayed

\* C3 witness: a tick with input, a delayed sample the filter changed, feedback
\* and an even mix
C3_Witness ==
    \E c \in Processed :
        /\ last[c].input = ONE
        /\ last[c].delayed > 0
        /\ last[c].filtered # last[c].delayed
        /\ params.feedback > 0
        /\ params.mix = HALF
        /\ last[c].output = HALF + Mul(last[c].delayed, HALF)
        /\ delay_lines[c].buffer[last[c].write_pos] > ONE

\* C4: in every tick the delay line is read, then written, then advanced exactly
\* once: the delayed sample is what the line held before the tick, whatever the
\* tick's input; the written value lands at the cursor the tick started with and
\* changes no other slot; the cursor moves one slot; and read(1) after the tick
\* returns the written value.
C4_ReadBeforeWrite ==
    [][(pc = "processing" /\ tick' = tick + 1) =>
          \A c \in 1 .. buf_channels :
              has_state(c) =>
                  LET line == delay_lines[c]
                      did == last'[c]
                  IN  /\ did.delayed = DelayLine_read(line, did.delay_samps)
                      /\ \A v \in InputVals :
                            process_channel(line, filters[c], v, params,
                                            sample_rate).did.delayed = did.delayed
                      /\ did.write_pos = line.write_pos
                      /\ delay_lines'[c].buffer =
                            [line.buffer EXCEPT ![line.write_pos] = did.written]
                      /\ delay_lines'[c].write_pos = (line.write_pos + 1) % line.buffer_len
                      /\ DelayLine_read(delay_lines'[c], ONE) = did.written]_vars

\* C4 witness: after a later tick, read(1) returns the value that tick wrote, which
\* is not the delayed sample the tick read
C4_Witness ==
    \E c \in Processed :
        /\ tick >= 2
        /\ last[c].written > 0
        /\ last[c].delayed > 0
        /\ last[c].delayed # last[c].written
        /\ DelayLine_read(delay_lines[c], ONE) = last[c].written
        /\ delay_lines[c].write_pos = last[c].write_pos + 1


----------------------------------------------------------------------------
(* Properties of the impulse response (SpecEcho) *)

\* the delay is a whole number of samples the line can hold
WholeDelay ==
    /\ DelaySamps % ONE = 0
    /\ DelaySamps >= ONE
    /\ DelaySamps <= (max_delay_samples(sample_rate) - 1) * ONE

\* the delay in whole samples
D == DelaySamps \div ONE

\* the channels whose output since initialize()/reset() is an impulse response
Echoing == IF pc = "panicked" \/ tick = 0 THEN {}
           ELSE {c \in 1 .. buf_channels : has_state(c)}

\* the output of channel c at tick t, the impulse being fed at tick 0
Out(c, t) == outs[t + 1][c]

\* the ticks that have produced output
OutTicks == 0 .. Len(outs) - 1

\* C5: from freshly initialized or reset state, with feedback 0, mix 1 and a whole
\* delay D in 1 .. capacity-1, an impulse at tick 0 gives output 1.0 at tick D and
\* 0.0 at every other tick, also after the cursor has wrapped.
C5_SingleEcho ==
    \A c \in Echoing :
        (WholeDelay /\ params.feedback = 0 /\ params.mix = ONE) =>
            \A t \in OutTicks : Out(c, t) = IF t = D THEN ONE ELSE 0

\* C5 witness: the single echo was put out and the cursor has wrapped since
C5_Witness ==
    \E c \in Echoing :
          /\ WholeDelay
          /\ params.feedback = 0
          /\ params.mix = ONE
          /\ tick > delay_lines[c].buffer_len
          /\ delay_lines[c].write_pos = tick - delay_lines[c].buffer_len
          /\ Out(c, D) = ONE
          /\ Out(c, tick - 1) = 0

\* the n-th echo of channel c
Echo(c, n) == Out(c, n * D)

\* the echoes after which a further one has been put out
Echoes == {n \in 1 .. Len(outs) : (n + 1) * D \in OutTicks}

\* C6: as C5 but with feedback > 0 (0.5 in the scenario): nothing before tick D, the
\* first echo 1.0 at tick D, and each echo at tick (n+1)*D is the echo at tick n*D
\* scaled by the feedback factor, less what the filter takes: at most
\* feedback * echo(n), at least feedback * (1 - coefficient) * echo(n), so echoes
\* decay geometrically; a filter with coefficient 0 returns its input, which makes
\* the scaling exact.
C6_EchoTrain ==
    \A c \in Echoing :
        (WholeDelay /\ params.feedback > 0 /\ params.mix = ONE) =>
            /\ \A t \in OutTicks : t < D => Out(c, t) = 0
            /\ D \in OutTicks => Echo(c, 1) = ONE
            /\ \A n \in Echoes :
                  /\ Echo(c, n + 1) <= Mul(Echo(c, n), params.feedback)
                  /\ Echo(c, n + 1) >=
                        Mul(Mul(ONE - filters[c].coefficient, Echo(c, n)), params.feedback)
                  /\ Echo(c, n) > 0 => Echo(c, n + 1) < Echo(c, n)
                  /\ params.feedback = HALF => Echo(c, n + 1) <= RoundDiv(ONE, 2 ^ Min(n, 11))
                  /\ OnePoleFilter_output([coefficient |-> 0,
                                           prev_output |-> filters[c].prev_output],
                                          Echo(c, n)) = Echo(c, n)

\* C6 witness: feedback 0.5 and three echoes, each below the one before
C6_Witness ==
    \E c \in Echoing :
          /\ WholeDelay
          /\ params.feedback = HALF
          /\ params.mix = ONE
          /\ 3 * D \in OutTicks
          /\ Echo(c, 1) = ONE
          /\ Echo(c, 2) > 0
          /\ Echo(c, 2) < Echo(c, 1)
          /\ Echo(c, 3) > 0
          /\ Echo(c, 3) < Echo(c, 2)


----------------------------------------------------------------------------
(* Properties of the plugin's life cycle (Spec) *)

\* a delay line holding silence with its cursor at 0
SilentLine(line) ==
    /\ line.write_pos = 0
    /\ \A i \in DOMAIN line.buffer : line.buffer[i] = 0

\* C11: reset() after any processing leaves every delay line with all storage zero
\* and write cursor 0 and every filter with prev_output 0, and leaves the filter
\* coefficients, the number of channels and the capacities as they were.
C11_ResetClears ==
    [][reset =>
          /\ Len(delay_lines') = Len(delay_lines)
          /\ Len(filters') = Len(filters)
          /\ \A c \in DOMAIN delay_lines :
                /\ SilentLine(delay_lines'[c])
                /\ delay_lines'[c].buffer_len = delay_lines[c].buffer_len
                /\ DOMAIN delay_lines'[c].buffer = DOMAIN delay_lines[c].buffer
          /\ \A c \in DOMAIN filters :
                /\ filters'[c].prev_output = 0
                /\ filters'[c].coefficient = filters[c].coefficient]_vars

\* C11 witness: reset() found samples in the lines and a filter memory, and left
\* silence and the coefficient the processing had set
C11_Witness ==
    /\ status.op = "reset"
    /\ status.dirty
    /\ Len(delay_lines) = MaxChannels
    /\ \A c \in DOMAIN delay_lines : SilentLine(delay_lines[c])
    /\ \A c \in DOMAIN filters : filters[c].prev_output = 0 /\ filters[c].coefficient > 0


\* a step of the sample loop of process()
TickStep == pc = "processing" /\ tick' = tick + 1

\* C12: in a tick, a buffer channel without a delay line or a filter (the plugin
\* never initialized included) keeps its sample, no failure occurs, the plugin's
\* state holds as many lines and filters as before, those without a part in the
\* tick unchanged, and every channel that has state is processed in the same tick.
C12_MissingStateSkipped ==
    [][TickStep =>
          /\ pc' = "processing"
          /\ Len(delay_lines') = Len(delay_lines)
          /\ Len(filters') = Len(filters)
          /\ \A c \in 1 .. buf_channels :
                IF has_state(c)
                THEN last'[c].processed
                ELSE /\ ~last'[c].processed
                     /\ outs'[tick'][c] = ins'[tick'][c]
          /\ \A c \in DOMAIN delay_lines :
                c > buf_channels =>
                    delay_lines'[c] = delay_lines[c] /\ filters'[c] = filters[c]]_vars

\* C12 witness: a stereo tick on a plugin initialized for one channel: channel 1 was
\* processed and put out a delayed sample, channel 2 kept its input 1.0
C12_Witness ==
    /\ pc = "processing"
    /\ buf_channels = 2
    /\ Len(delay_lines) = 1
    /\ Len(filters) = 1
    /\ tick > 0
    /\ last[1].processed
    /\ last[1].delayed > 0
    /\ ~last[2].processed
    /\ ins[tick][2] = ONE
    /\ outs[tick][2] = ONE


\* the buffer channels the plugin holds state for
WithState == {c \in 1 .. buf_channels : has_state(c)}

RECURSIVE Alone(_, _)
\* channel c after t ticks had it been processed on its own: from a new delay line
\* and a new filter, fed its own samples ins[1][c] .. ins[t][c] and nothing else
Alone(c, t) ==
    IF t = 0
    THEN [delay_line |-> DelayLine_new(max_delay_samples(sample_rate)),
          filter |-> OnePoleFilter_new,
          did |-> NoTick]
    ELSE LET before == Alone(c, t - 1)
         IN  process_channel(before.delay_line, before.filter, ins[t][c], params,
                             sample_rate)

\* C13: after every tick a channel's delay line, filter and output are those it
\* would have had processed on its own: they are determined by its own input
\* samples and the parameters, whatever is fed to the other channels.
C13_ChannelIndependence ==
    (pc # "panicked" /\ tick > 0) =>
        \A c \in WithState :
            /\ Alone(c, tick) =
                  [delay_line |-> delay_lines[c], filter |-> filters[c], did |-> last[c]]
            /\ outs[tick][c] = last[c].output

\* C13 witness: two channels with state, one fed an impulse that has come back as
\* an echo, the other fed silence and still silent
C13_Witness ==
    /\ WithState = {1, 2}
    /\ tick > 0
    /\ ins[1] = <<ONE, 0>>
    /\ last[1].delayed > 0
    /\ outs[tick][1] > 0
    /\ \A t \in 1 .. tick : outs[t][2] = 0
    /\ \A i \in DOMAIN delay_lines[2].buffer : delay_lines[2].buffer[i] = 0
    /\ filters[2].prev_output = 0
    /\ filters[1].prev_output > 0


----------------------------------------------------------------------------
(* Properties of the stand-alone filter (SpecFilter) *)

\* C14: process(x) returns (1-coefficient)*x + coefficient*prev_output and stores
\* that value as the new prev_output; with coefficient 0, the state after new()
\* and before any set_cutoff(), process(x) = x whatever was processed before.
C14_FilterRecurrence ==
    fltLast.op = "process" =>
        /\ fltLast.output = Mul(ONE - flt.coefficient, fltLast.input)
                              + Mul(flt.coefficient, fltLast.prev_output)
        /\ flt.prev_output = fltLast.output
        /\ ~fltCut => flt.coefficient = 0 /\ fltLast.output = fltLast.input

\* C14 witness: a process() call that blended its input with a filter memory other
\* than zero and stored a result that is neither of the two
C14_Witness ==
    /\ fltLast.op = "process"
    /\ fltCut
    /\ fltLast.prev_output = ONE
    /\ fltLast.input = -ONE
    /\ flt.prev_output = fltLast.output
    /\ fltLast.output > -ONE
    /\ fltLast.output < ONE


\* |x|
Abs(x) == IF x < 0 THEN -x ELSE x

\* the run of process() calls under way has stopped moving the output
Settled == fltRun.n > 0 /\ OnePoleFilter_output(flt, fltRun.input) = flt.prev_output

\* C16: fed a constant c, each process() call moves the output toward c and never
\* past it, by at least the factor coefficient (up to the rounding of one product);
\* a filter memory equal to c stays c; within MaxRun calls the output stops moving,
\* and it then is as close to c as the rounding of the two products allows: within
\* 1 / (1 - coefficient) representable values.
C16_DCPass ==
    (fltLast.op = "process" /\ fltRun.n > 0) =>
        LET c == fltRun.input
            before == fltLast.prev_output
            out == flt.prev_output
        IN  /\ fltLast.input = c
            /\ out >= Min(before, c)
            /\ out <= Max(before, c)
            /\ Abs(out - c) <= Abs(before - c)
            /\ Abs(out - c) <= Mul(flt.coefficient, Abs(before - c)) + 1
            /\ before = c => out = c
            /\ fltRun.n = MaxRun => Settled
            /\ Settled => (ONE - flt.coefficient) * Abs(out - c) <= ONE

\* C16 witness: under a coefficient above 0.8 a run of 1.0 that started from a
\* filter memory of -1.0 has climbed for thirty calls and settled next to 1.0
C16_Witness ==
    /\ fltLast.op = "process"
    /\ fltCut
    /\ flt.coefficient > Percent(80)
    /\ fltRun.input = ONE
    /\ fltRun.start = -ONE
    /\ fltRun.n >= 30
    /\ Settled
    /\ Abs(flt.prev_output - ONE) <= 5


\* cutoffs to compare, around and far from the clamp limits
ProbeCutoffs ==
    {k * HALF : k \in {0, 20, 39, 40, 41, 43, 44, 47, 48}}
        \cup {k * ONE : k \in {200, 293, 294, 295, 8000, 20000}}

\* C17: whenever set_cutoff(cutoff, sample_rate) returns, the coefficient is the one
\* of the cutoff clamped to [20, 0.49 * sample_rate]: a cutoff below 20 Hz gives the
\* coefficient of 20 Hz, a cutoff above 0.49 * sample_rate that of 0.49 *
\* sample_rate; and prev_output is left as it was.
C17_CutoffClamped ==
    fltLast.op = "set_cutoff" =>
        LET rate == fltLast.rate
            lo == MinCutoffHz * ONE
            hi == OnePoleFilter_max_cutoff(rate)
            atLo == OnePoleFilter_set_cutoff(OnePoleFilter_new, lo, rate).coefficient
            atHi == OnePoleFilter_set_cutoff(OnePoleFilter_new, hi, rate).coefficient
        IN  /\ lo <= hi
            /\ flt.prev_output = fltLast.prev_output
            /\ fltLast.cutoff < lo => flt.coefficient = atLo
            /\ fltLast.cutoff > hi => flt.coefficient = atHi
            /\ \A cutoff \in ProbeCutoffs :
                  LET got == OnePoleFilter_set_cutoff(flt, cutoff, rate)
                  IN  /\ got.prev_output = flt.prev_output
                      /\ cutoff < lo => got.coefficient = atLo
                      /\ cutoff > hi => got.coefficient = atHi
                      /\ (lo <= cutoff /\ cutoff <= hi) =>
                            got.coefficient <= atLo /\ got.coefficient >= atHi

\* C17 witness: set_cutoff(10 Hz) at 600 Hz on a filter with memory gave the large
\* coefficient of 20 Hz and kept the memory
C17_Witness ==
    /\ fltLast.op = "set_cutoff"
    /\ fltLast.cutoff = 10 * ONE
    /\ fltLast.rate = 600
    /\ fltLast.prev_output # 0
    /\ flt.prev_output = fltLast.prev_output
    /\ flt.coefficient > Percent(80)
    /\ flt.coefficient < ONE


----------------------------------------------------------------------------
(* Properties of what process() returns (Spec) *)

\* feedback amounts from 0 to 0.95, the nearest to 0.001 among them
TailFeedbacks == {0, 1, 2, 3, 10, 51, 102, Percent(40), HALF, Percent(95)}

\* C15: the tail reported when a block ends is delay_samples (as a whole number)
\* when feedback <= 0.001 and (-3 / log10(feedback)) * delay_samples when feedback
\* > 0.001; -3 / log10(feedback) is at least 1 for every feedback up to 0.95 (about
\* 10 at 0.5), so the tail is never shorter than one delay period.
C15_TailEstimate ==
    [][(pc = "processing" /\ pc' = "idle") =>
          LET d == calculate_delay_samples(params'.delay_time, sample_rate)
              period == d \div ONE
          IN  /\ status'.op = "process"
              /\ status'.tail >= period
              /\ params'.feedback * 1000 <= ONE => status'.tail = period
              /\ params'.feedback * 1000 > ONE =>
                    status'.tail = MulAsU32(RoundDiv(3 * ONE * ONE, -Log10(params'.feedback)), d)
              /\ tail_repeats(HALF) > 9 * ONE + Percent(90)
              /\ tail_repeats(HALF) < 10 * ONE + Percent(10)
              /\ \A feedback \in TailFeedbacks :
                    /\ tail_samples(feedback, d) >= period
                    /\ feedback * 1000 <= ONE => tail_samples(feedback, d) = period
                    /\ feedback * 1000 > ONE => tail_repeats(feedback) >= ONE]_vars

\* C15 witness: a block of samples at 48 Hz ended under feedback 0.4 and reported
\* a tail of between seven and eight delay periods
C15_Witness ==
    /\ pc = "idle"
    /\ status.op = "process"
    /\ tick > 0
    /\ sample_rate = 48
    /\ params.feedback = Percent(40)
    /\ status.tail > 7 * (DelaySamps \div ONE)
    /\ status.tail <= 8 * (DelaySamps \div ONE + 1)


----------------------------------------------------------------------------
(* Properties of the plugin's delay lines over long runs (SpecEcho) *)

\* C18: every delay line of the plugin has capacity C >= 1 and 0 <= write cursor
\* < C; advance() would set the cursor to (cursor + 1) mod C; and after n ticks
\* since initialize()/reset() the cursor of every line whose channel is in the
\* buffer is n mod C, the others still being at 0.
C18_WriteCursor ==
    pc # "panicked" =>
        \A c \in DOMAIN delay_lines :
            LET line == delay_lines[c]
                C == line.buffer_len
            IN  /\ C >= 1
                /\ line.write_pos >= 0
                /\ line.write_pos < C
                /\ DelayLine_advance(line).write_pos = (line.write_pos + 1) % C
                /\ line.write_pos = IF tick > 0 /\ c \in WithState THEN tick % C ELSE 0

\* C18 witness: after more ticks than the lines have slots both cursors have
\* wrapped and stand at n mod C
C18_Witness ==
    /\ pc = "processing"
    /\ WithState = {1, 2}
    /\ \A c \in WithState :
          /\ tick > delay_lines[c].buffer_len
          /\ delay_lines[c].write_pos = tick - delay_lines[c].buffer_len
          /\ delay_lines[c].write_pos > 0


----------------------------------------------------------------------------
(* Frame conditions of the stand-alone delay line (SpecDelayLine) *)

\* the storage of the line before and after a step is as long as its capacity
SameCapacity ==
    /\ dl'.buffer_len = dl.buffer_len
    /\ DOMAIN dl'.buffer = DOMAIN dl.buffer
    /\ DOMAIN dl.buffer = 0 .. dl.buffer_len - 1

\* the slots other than the one at the cursor are as they were
OtherSlotsKept ==
    \A i \in DOMAIN dl.buffer : i # dl.write_pos => dl'.buffer[i] = dl.buffer[i]

\* C19: a write(s) that returns changes only the slot at the write cursor, to s,
\* and leaves the cursor, the capacity and every other slot as they were; read(x)
\* changes nothing of the line; advance() changes only the cursor; clear() keeps
\* the storage length, as do the other three.
C19_FrameConditions ==
    [][/\ \A s \in SampleVals :
             DLWrite(s) /\ ~dlPanicked' =>
                 /\ dl'.buffer[dl.write_pos] = s
                 /\ OtherSlotsKept
                 /\ dl'.write_pos = dl.write_pos
                 /\ SameCapacity
       /\ DLRead(dlRead'.delay) => dl' = dl
       /\ DLAdvance /\ ~dlPanicked' =>
             /\ dl'.buffer = dl.buffer
             /\ SameCapacity
       /\ DLClear => SameCapacity]_vars

\* C19 witness: a write has put 1.0 at a cursor past slot 0 while a slot before it
\* still holds the 0.0 it held, and a read has been served since
C19_Witness ==
    /\ dlWritten
    /\ dlRead.done
    /\ dl.write_pos > 0
    /\ dl.buffer[dl.write_pos] = ONE
    /\ \E i \in DOMAIN dl.buffer : i < dl.write_pos /\ dl.buffer[i] = 0
    /\ \E i \in DOMAIN dl.buffer : i # dl.write_pos /\ dl.buffer[i] = ONE


----------------------------------------------------------------------------
(* Properties of initialize() after processing (SpecEcho) *)

\* a delay line of the given capacity holding silence, its cursor at 0
FreshLine(line, capacity) ==
    /\ line.buffer_len = capacity
    /\ DOMAIN line.buffer = 0 .. capacity - 1
    /\ \A i \in DOMAIN line.buffer : line.buffer[i] = 0
    /\ line.write_pos = 0

----------------------------------------------------------------------------
(* Properties of the parameter smoothers during process() (SpecSmooth) *)

\* a smoother has moved one step along its ramp, or stayed where it had arrived
SteppedOnce(name) ==
    /\ smoothers'[name].target = smoothers[name].target
    /\ smoothers'[name].steps_left =
          (IF smoothers[name].steps_left > 0 THEN smoothers[name].steps_left - 1 ELSE 0)

\* every channel processed in the tick worked with the values the smoothers yielded
SameValues ==
    \A c \in 1 .. buf_channels :
        has_state(c) =>
            /\ last'[c].processed
            /\ last'[c].delay_samps = calculate_delay_samples(params'.delay_time, sample_rate)
            /\ last'[c].feedback = params'.feedback
            /\ last'[c].mix = params'.mix
            /\ last'[c].coefficient =
                  OnePoleFilter_set_cutoff(OnePoleFilter_new, params'.filter_cutoff,
                                           sample_rate).coefficient

\* C21: in a sample tick each of the four smoothers is advanced once and every
\* channel works with the same four values; when process() returns at the end of
\* the block no smoother has been advanced any further, so that a block of N ticks
\* advances each smoother N times.
C21_OneSetPerTick ==
    [][/\ TickStep /\ pc' = "processing" =>
             /\ \A name \in ParamNames : SteppedOnce(name)
             /\ SameValues
       /\ (pc = "processing" /\ pc' = "idle") =>
             /\ smoothers' = smoothers
             /\ params' = params]_vars

\* C21: the part of it that the ticks of a block keep
C21_TicksStepOnce ==
    [][TickStep /\ pc' = "processing" =>
          /\ \A name \in ParamNames : SteppedOnce(name)
          /\ SameValues]_vars

\* C21 witness: a block of one tick has ended while the delay time and the mix
\* were on their way; the delay-time ramp of 5 steps has 3 left, the mix ramp of
\* 2 steps has 1 left
C21_ExtraStep ==
    /\ pc = "idle"
    /\ status.op = "process"
    /\ tick = 1
    /\ smoothers.delay_time.steps_left = 3
    /\ smoothers.mix.steps_left = 1


----------------------------------------------------------------------------
(* Index safety of the stand-alone delay line (SpecDelayLine) *)

\* delay amounts read() may be handed: those of the harness and two far outside
IndexDelays(self) == DelayVals(self) \cup {-(2 ^ 20), 2 ^ 20}

\* C22: on a line of capacity C >= 1, for every write cursor in 0..C-1 and every
\* delay amount, the clamped whole delay d is at most C-1, write_pos + C - d - 1
\* is not negative, both read indices and the write index lie in 0..C-1, so that
\* no write() or read() panics; and no call on such a line has panicked.
C22_IndexSafety ==
    Capacity >= 1 =>
        /\ ~dlPanicked
        /\ dl.write_pos \in 0 .. Capacity - 1
        /\ DOMAIN dl.buffer = 0 .. Capacity - 1
        /\ \A cursor \in 0 .. Capacity - 1 :
              LET line == [dl EXCEPT !.write_pos = cursor]
              IN  /\ ~DelayLine_write_panics(line)
                  /\ \A x \in IndexDelays(line) :
                        LET d == DelayLine_delay_int(line, x)
                        IN  /\ d >= 0
                            /\ d <= Capacity - 1
                            /\ cursor + Capacity - d - 1 >= 0
                            /\ DelayLine_index_a(line, x) \in 0 .. Capacity - 1
                            /\ DelayLine_index_b(line, x) \in 0 .. Capacity - 1
                            /\ ~DelayLine_read_panics(line, x)

\* C22 witness: a line of a single slot has been written and then served a read
\* whose delay was clamped to C - 1 = 0, both indices being slot 0
C22_Witness ==
    /\ Capacity = 1
    /\ ~dlPanicked
    /\ dlWritten
    /\ dlRead.done
    /\ dlRead.delay > 0
    /\ DelayLine_delay_int(dl, dlRead.delay) = Capacity - 1
    /\ DelayLine_index_a(dl, dlRead.delay) = 0
    /\ DelayLine_index_b(dl, dlRead.delay) = 0


----------------------------------------------------------------------------
(* Properties of the feedback loop under a sustained input (SpecLoop) *)

\* M / (1 - f_max) for the input bound M = 1.0 and f_max = 0.95
LoopBound == (100 * ONE) \div (100 - 95)

\* the largest magnitude a channel holds: in its delay line or its filter memory
Peak(c) ==
    LET held == {Abs(delay_lines[c].buffer[i]) : i \in DOMAIN delay_lines[c].buffer}
                    \cup {Abs(filters[c].prev_output)}
    IN  CHOOSE m \in held : \A v \in held : v <= m

\* C23: with |input| <= M = 1.0 and feedback in [0, 0.95], after every step every
\* value in a delay line and every filter memory is at most M / (1 - f_max) in
\* magnitude; for in each tick, with S the largest magnitude the channel held, the
\* filter coefficient lies in [0, 1), the delayed and the filtered sample are at
\* most S and the value written at most M + f * S (each up to the rounding of the
\* arithmetic), while the delay time is being moved.
C23_BoundedLoop ==
    [][/\ \A c \in DOMAIN delay_lines' :
             \A i \in DOMAIN delay_lines'[c].buffer :
                 Abs(delay_lines'[c].buffer[i]) <= LoopBound
       /\ \A c \in DOMAIN filters' : Abs(filters'[c].prev_output) <= LoopBound
       /\ TickStep /\ pc' = "processing" =>
             \A c \in WithState :
                 LET S == Peak(c)
                     f == params'.feedback
                     did == last'[c]
                 IN  /\ Abs(did.input) <= ONE
                     /\ f >= 0
                     /\ f <= MaxFeedback
                     /\ filters'[c].coefficient \in 0 .. ONE - 1
                     /\ Abs(did.delayed) <= S + 1
                     /\ Abs(did.filtered) <= S + 2
                     /\ filters'[c].prev_output = did.filtered
                     /\ Abs(did.written) <= ONE + Mul(f, S) + 3
                     /\ delay_lines'[c].buffer[did.write_pos] = did.written]_vars

\* C23 witness: under feedback 0.95 and a delay time that has been moved, the
\* loop has built up more than six times the input level
C23_Witness ==
    /\ pc = "processing"
    /\ WithState = {1}
    /\ params.feedback = MaxFeedback
    /\ smoothers.delay_time.target = 150 * ONE
    /\ smoothers.delay_time.steps_left = 0
    /\ Peak(1) > 6 * ONE
    /\ Abs(filters[1].prev_output) > 6 * ONE


----------------------------------------------------------------------------
(* Properties of the capacity initialize() chooses (SpecEcho) *)

\* sample rates of hosts, and the low ones of the model; process() runs from 41 Hz
HostSampleRates == {41, 44, 48, 8000, 44100, 48000, 96000, 192000}

\* delay times across the declared range 100..2000 ms, its ends and the step of
\* 0.1 ms below the upper end among them
HeadroomDelays ==
    {100 * ONE, 101 * ONE, 500 * ONE, 1000 * ONE, 1999 * ONE, 1999 * ONE + Percent(90),
     2000 * ONE}

\* a delay line of the given capacity, its storage left out
LineOfCapacity(capacity) == [DelayLine_new(0) EXCEPT !.buffer_len = capacity]

\* on a line of the given capacity at the given rate the delays of the declared
\* range stay below the clamp limit, pass the clamp as they are, and stay distinct
Headroom(capacity, sample_rate_hz) ==
    LET line == LineOfCapacity(capacity)
        samps(ms) == calculate_delay_samples(ms, sample_rate_hz)
    IN  /\ \A ms \in HeadroomDelays :
              /\ samps(ms) >= 0
              /\ samps(ms) <= (capacity - 1) * ONE
              /\ DelayLine_clamp(line, samps(ms)) = samps(ms)
        /\ \A a, b \in HeadroomDelays :
              a < b => DelayLine_clamp(line, samps(a)) < DelayLine_clamp(line, samps(b))

\* C24: every delay line initialize() has made has the capacity floor(2.1 *
\* sample_rate), on which every delay time of the range 100..2000 ms gives a
\* delay of at most capacity - 1 samples that read() does not clamp, distinct
\* delay times giving distinct delays; the delay of every tick processed was below
\* the limit; and the same holds for the capacity initialize() chooses at each
\* host sample rate (while no call has panicked).
C24_CapacityHeadroom ==
    pc # "panicked" =>
        /\ \A c \in DOMAIN delay_lines :
              /\ delay_lines[c].buffer_len = max_delay_samples(sample_rate)
              /\ Headroom(delay_lines[c].buffer_len, sample_rate)
        /\ \A c \in DOMAIN last :
              (last[c].processed /\ c \in DOMAIN delay_lines) =>
                  /\ last[c].delay_samps <= (delay_lines[c].buffer_len - 1) * ONE
                  /\ DelayLine_clamp(delay_lines[c], last[c].delay_samps) =
                        last[c].delay_samps
        /\ status.op = "initialize" =>
              \A sr \in HostSampleRates :
                  /\ max_delay_samples(sr) - 1 >= 2 * sr
                  /\ Headroom(max_delay_samples(sr), sr)

\* C24 witness: at 48 Hz with the longest delay, 2000 ms = 96 samples on a line
\* of 100 slots, the impulse of tick 0 has come back after 96 ticks, unclamped
C24_Witness ==
    /\ pc = "processing"
    /\ sample_rate = 48
    /\ params.delay_time = 2000 * ONE
    /\ tick = 97
    /\ 1 \in WithState
    /\ delay_lines[1].buffer_len = 100
    /\ last[1].delay_samps = 96 * ONE
    /\ last[1].delayed = ONE


----------------------------------------------------------------------------
(* Properties of reset() as a new start (Spec) *)

\* sequences of ticks to play: an impulse or a held input, under parameters that
\* stay as set or change with every tick
ResetProbes ==
    [delay_time : {100 * ONE, 500 * ONE}, feedback : {0, Percent(40)},
     mix : {HALF, ONE}, moving : BOOLEAN, impulse : BOOLEAN]

\* the parameter values of tick t of a sequence
ProbeParams(probe, t) ==
    IF probe.moving /\ t % 2 = 0
    THEN [delay_time |-> probe.delay_time + 25 * ONE, feedback |-> HALF, mix |-> 0,
          filter_cutoff |-> 200 * ONE]
    ELSE [delay_time |-> probe.delay_time, feedback |-> probe.feedback,
          mix |-> probe.mix, filter_cutoff |-> 8000 * ONE]

\* the input sample of tick t of a sequence
ProbeInput(probe, t) == IF probe.impulse /\ t > 1 THEN 0 ELSE ONE

RECURSIVE Played(_, _, _, _)
\* a channel after the first t ticks of a sequence, and the outputs it gave
Played(delay_line, filter, probe, t) ==
    IF t = 0
    THEN [delay_line |-> delay_line, filter |-> filter, outputs |-> <<>>]
    ELSE LET before == Played(delay_line, filter, probe, t - 1)
             step == process_channel(before.delay_line, before.filter,
                                     ProbeInput(probe, t), ProbeParams(probe, t),
                                     sample_rate)
         IN  [delay_line |-> step.delay_line, filter |-> step.filter,
              outputs |-> Append(before.outputs, step.did.output)]

\* a channel as initialize() makes it at the plugin's sample rate
FreshChannel ==
    [delay_line |-> DelayLine_new(max_delay_samples(sample_rate)),
     filter |-> OnePoleFilter_new]

\* C25: when reset() has returned, whatever was processed before, each channel
\* gives for every sequence of ticks the outputs a freshly initialized channel
\* gives for it, and is left in the state the fresh one is left in (so that
\* this goes on), although its filter still has the coefficient of the last tick
\* before the reset.
C25_ResetEquivalence ==
    (pc = "idle" /\ status.op = "reset") =>
        \A c \in DOMAIN delay_lines :
            \A probe \in ResetProbes :
                LET after_reset == Played(delay_lines[c], filters[c], probe, MaxReplay)
                    fresh == Played(FreshChannel.delay_line, FreshChannel.filter, probe,
                                    MaxReplay)
                IN  /\ after_reset.outputs = fresh.outputs
                    /\ after_reset.delay_line = fresh.delay_line
                    /\ after_reset.filter = fresh.filter

\* C25 witness: reset() has returned on a plugin that held sound; its filters
\* keep a coefficient a fresh filter does not have, and an impulse played from
\* here comes back as an echo
C25_Witness ==
    /\ pc = "idle"
    /\ status.op = "reset"
    /\ status.dirty
    /\ Len(delay_lines) = MaxChannels
    /\ \A c \in DOMAIN filters : filters[c].coefficient # FreshChannel.filter.coefficient
    /\ \E probe \in ResetProbes :
          /\ probe.impulse
          /\ probe.mix = ONE
          /\ \E t \in 2 .. MaxReplay :
                Played(delay_lines[1], filters[1], probe, MaxReplay).outputs[t] > 0

============================================================================
